---- MODULE Spec2Model ----
(***************************************************************************)
(* Model of the AiNed bit grid library (src/ained.c), of the Lights-Out    *)
(* helpers built on it (src/mod_lightsout.c) and of the command loop       *)
(* (src/main.c).                                                           *)
(*                                                                         *)
(* A 64-bit word is the set of its set bit positions (a subset of 0..63):  *)
(* OR is \cup, AND is \cap, AND-NOT is \, XOR is the symmetric difference. *)
(* The 128 grid words are held together as the set of their set bits, the  *)
(* pairs <<word index, bit position>>; HwRead gives one word of it.        *)
(* The device state and the handle's fields are carried in one record h so *)
(* that every library function is an operator from handle to handle and    *)
(* the functions compose as they do in the code.                           *)
(***************************************************************************)
EXTENDS Integers, Sequences, FiniteSets, TLC

VARIABLES memory,   \* handle->memory[0..num_words-1], as the set of <<word, bit>> set
          maskreg,  \* handle->registers[AINED_REG_MASK_64BIT], the write mask register
          bypass,   \* regs[AINED_REG_BYPASS]
          index,    \* handle->index, -1 when nothing is pending
          mask,     \* handle->mask
          value,    \* handle->value
          fault,    \* a word outside the 128 device words was addressed
          last,     \* the last call: its name, arguments, diagnostic and pre-call state
          req,      \* the ained_set_bit requests the pending transaction was built from
          steps,    \* number of calls made so far
          coeff,    \* the 48 bytes of regs[AINED_REG_COEFF_0 .. AINED_REG_COEFF_11], from 1
          dipoles,  \* regs[AINED_REG_DIPOLE_OFFSET + i], the dipole registers
          num_dipoles,  \* handle->num_dipoles
          files,    \* the file system: the images ained_store_memory wrote, by name
          out,      \* what the last call returned and wrote through its pointers
          stored,   \* the handle and device as they were when each file was stored
          cli       \* the command loop of main: the handlers the last line ran, quit

vars == <<memory, maskreg, bypass, index, mask, value, fault, last, req, steps,
          coeff, dipoles, num_dipoles, files, out, stored, cli>>

-----------------------------------------------------------------------------
(* Program constants *)

bsize == 8

num_words == 128

AINED_NUM_REGS == 15

AINED_REG_DIPOLE_NUM_REG_PD == 4

\* Rows and columns of the grid, as ained_print_memory walks them.
NumRows == num_words

NumCols == bsize * 8

\* The bit positions of a 64-bit word; also the word 0xFFFFFFFFFFFFFFFF.
AllOnes == 0 .. 63

-----------------------------------------------------------------------------
(* Bounds of the model *)

\* Calls made in one behaviour of Spec.
MaxSteps == 4

\* Calls made in one behaviour of SpecFlip.
MaxFlipSteps == 3

\* Calls made in one behaviour of SpecBoard.
MaxBoardSteps == 2

\* Largest number of dipoles the device has.
MaxDipoles == 2

\* Calls made in one behaviour of SpecDipole.
MaxDipoleSteps == 3

\* Calls made in one behaviour of SpecCoeff.
MaxCoeffSteps == 2

\* Calls made in one behaviour of SpecStore.
MaxStoreSteps == 4

\* Calls made in one behaviour of SpecWord.
MaxWordSteps == 3

\* Calls made in one behaviour of SpecEmpty.
MaxEmptySteps == 2
MaxScanSteps == 3

\* Lines read in one behaviour of SpecCli.
MaxCliSteps == 2

-----------------------------------------------------------------------------
(* 32-bit unsigned arithmetic.  A uint32_t is held as the signed integer   *)
(* with the same 32-bit pattern, so 0 - 1 is -1 and stands for 0xFFFFFFFF. *)
(* Sums and differences of the small values used here never leave 32 bits. *)

ULt(a, b) == IF (a >= 0) = (b >= 0) THEN a < b ELSE b < 0

UGt(a, b) == ULt(b, a)

-----------------------------------------------------------------------------
(* Word operations *)

Xor(a, b) == (a \ b) \cup (b \ a)

\* (uint64_t)1 << id
Bit(id) == {id}

-----------------------------------------------------------------------------
(* BitGrid addressing *)

\* ained_get_index with the tile row and the tile column exchanged.
ained_get_index_transposed(rows, columns) ==
    LET y == rows \div bsize
        x == columns \div bsize
    IN  x * 8 + y

ained_get_index(rows, columns) ==
    LET y == rows \div bsize
        x == columns \div bsize
    IN  y * 8 + x

ained_get_word_index(rows, columns) ==
    LET r == rows % bsize
        c == columns % bsize
    IN  r * 8 + c

-----------------------------------------------------------------------------
(* The device *)

\* The handle and device state as one record.
H == [memory |-> memory, maskreg |-> maskreg, bypass |-> bypass,
      index |-> index, mask |-> mask, value |-> value, fault |-> fault,
      coeff |-> coeff, dipoles |-> dipoles, num_dipoles |-> num_dipoles,
      files |-> files]

\* A load of a 64-bit word from the memory region.
HwRead(h, idx) ==
    IF idx \in 0 .. (num_words - 1)
    THEN { p[2] : p \in { q \in h.memory : q[1] = idx } }
    ELSE {}

\* What a store of word leaves in grid word idx: the device changes only the
\* bits the write mask register selects.
HwStore(h, idx, word) ==
    (HwRead(h, idx) \ h.maskreg) \cup (word \cap h.maskreg)

\* A store of a 64-bit word to the memory region.  A store outside the 128
\* words of the device is recorded in fault and changes no grid word.
HwWrite(h, idx, word) ==
    IF idx \in 0 .. (num_words - 1)
    THEN [h EXCEPT !.memory = { p \in @ : p[1] # idx }
                                \cup { <<idx, b>> : b \in HwStore(h, idx, word) }]
    ELSE [h EXCEPT !.fault = TRUE]

-----------------------------------------------------------------------------
(* Transaction buffer *)

\* ained_set_bit without its cross-word check: a second word is merged into
\* the pending transaction.
ained_set_bit_merging(h, row, column, val) ==
    LET idx == ained_get_index(row, column)
        id  == ained_get_word_index(row, column)
    IN  [h EXCEPT !.index = idx,
                  !.value = IF val # 0 THEN @ \cup Bit(id) ELSE @ \ Bit(id),
                  !.mask  = @ \cup Bit(id)]

\* ained_set_bit that takes a bit out of the mask when it is asked to be 0.
ained_set_bit_unmasking(h, row, column, val) ==
    LET idx == ained_get_index(row, column)
        id  == ained_get_word_index(row, column)
    IN  IF h.index >= 0 /\ idx # h.index
        THEN h
        ELSE IF val # 0
             THEN [h EXCEPT !.index = idx,
                            !.value = @ \cup Bit(id),
                            !.mask  = @ \cup Bit(id)]
             ELSE [h EXCEPT !.index = idx,
                            !.value = @ \ Bit(id),
                            !.mask  = @ \ Bit(id)]

ained_set_bit(h, row, column, val) ==
    LET idx == ained_get_index(row, column)
        id  == ained_get_word_index(row, column)
    IN  IF h.index >= 0 /\ idx # h.index
        THEN h
        ELSE IF val # 0
             THEN [h EXCEPT !.index = idx,
                            !.value = @ \cup Bit(id),
                            !.mask  = @ \cup Bit(id)]
             ELSE [h EXCEPT !.index = idx,
                            !.value = @ \ Bit(id),
                            !.mask  = @ \cup Bit(id)]

\* The diagnostic ained_set_bit prints on stderr, "" when it prints none.
ained_set_bit_err(h, row, column) ==
    IF h.index >= 0 /\ ained_get_index(row, column) # h.index
    THEN "Cannot set bit in more then one word in a single commit."
    ELSE ""

\* ained_commit without its "Nothing to commit." return.
ained_commit_unguarded(h) ==
    LET h1 == [h EXCEPT !.maskreg = h.mask]
        h2 == HwWrite(h1, h.index, h.value)
    IN  [h2 EXCEPT !.mask = {}, !.value = {}, !.index = -1]

\* ained_commit that writes the word and leaves the transaction pending.
ained_commit_keeppending(h) ==
    IF h.index < 0
    THEN h
    ELSE LET h1 == [h EXCEPT !.maskreg = h.mask]
         IN  HwWrite(h1, h.index, h.value)

ained_commit(h) ==
    IF h.index < 0
    THEN h
    ELSE LET h1 == [h EXCEPT !.maskreg = h.mask]
             h2 == HwWrite(h1, h.index, h.value)
         IN  [h2 EXCEPT !.mask = {}, !.value = {}, !.index = -1]

\* The diagnostic ained_commit prints on stderr, "" when it prints none.
ained_commit_err(h) ==
    IF h.index < 0 THEN "Nothing to commit." ELSE ""

ained_set_mask(h, m) ==
    [h EXCEPT !.mask = m, !.maskreg = m]

\* The uint32_t offset is stored in the int32_t index: same 32-bit pattern.
ained_set_word(h, offset, word) ==
    [h EXCEPT !.index = offset, !.value = word]

-----------------------------------------------------------------------------
(* Bypass mode *)

\* ained_set_bypass that sets the write mask on enable and forgets to unset
\* it on disable.
ained_set_bypass_keepmask(h, enable) ==
    [h EXCEPT !.bypass  = IF enable THEN 1 ELSE 0,
              !.maskreg = IF enable THEN AllOnes ELSE @]

ained_set_bypass(h, enable) ==
    [h EXCEPT !.bypass  = IF enable THEN 1 ELSE 0,
              !.maskreg = IF enable THEN AllOnes ELSE {}]

\* for (j = 0; j < num_words; j++) handle->memory[j] = 0: one store to each
\* word, each store deciding its own word only.
ClearWords(h) ==
    [h EXCEPT !.memory =
        UNION { { <<j, b>> : b \in HwStore(h, j, {}) } : j \in 0 .. (num_words - 1) }]

\* ained_clear_memory that does not enable bypass before its stores.
ained_clear_memory_nobypass(h) ==
    ained_set_bypass(ClearWords(h), FALSE)

\* ained_clear_memory that does not disable bypass after its stores.
ained_clear_memory_leavebypass(h) ==
    ClearWords(ained_set_bypass(h, TRUE))

\* ained_clear_memory that puts bypass back to what it was before the call.
ained_clear_memory_restorebypass(h) ==
    ained_set_bypass(ClearWords(ained_set_bypass(h, TRUE)), h.bypass = 1)

ained_clear_memory(h) ==
    LET h1 == ained_set_bypass(h, TRUE)
        h2 == ClearWords(h1)
    IN  ained_set_bypass(h2, FALSE)

-----------------------------------------------------------------------------
(* Dipole registers *)

\* The registers from reg[AINED_REG_DIPOLE_OFFSET] on are held as a sequence:
\* reg[AINED_REG_DIPOLE_OFFSET + i] is its element i + 1.

\* reg[AINED_REG_DIPOLE_OFFSET + i]; a register of a dipole the device does
\* not have reads 0.
DipoleReg(h, i) ==
    IF i + 1 \in DOMAIN h.dipoles THEN h.dipoles[i + 1] ELSE 0

\* reg[AINED_REG_DIPOLE_OFFSET + i] = v
DipoleRegWrite(h, i, v) ==
    IF i + 1 \in DOMAIN h.dipoles
    THEN [h EXCEPT !.dipoles[i + 1] = v]
    ELSE [h EXCEPT !.fault = TRUE]

\* The while loop of ained_init: the dipoles counted from n on.
RECURSIVE CountDipoles(_, _)
CountDipoles(regs, n) ==
    IF n * AINED_REG_DIPOLE_NUM_REG_PD + 1 \in DOMAIN regs
       /\ regs[n * AINED_REG_DIPOLE_NUM_REG_PD + 1] # 0
    THEN CountDipoles(regs, n + 1)
    ELSE n

\* ained_init once the device is mapped: the dipoles are counted by the first
\* register of each block, and nothing is pending.
ained_init(h) ==
    [h EXCEPT !.num_dipoles = CountDipoles(h.dipoles, 0),
              !.mask = {},
              !.value = {},
              !.index = -1]

\* The diagnostic of the dipole range check, "" when it prints none.
ained_dipole_err(h, dipole) ==
    IF UGt(dipole, h.num_dipoles) THEN "Only %u dipoles in the system, requested %u." ELSE ""

\* What ained_get_dipole_rng returns (ret) and writes to *s0, *s1, *s2
\* (seeds); seeds is empty when the outputs are not written.
ained_get_dipole_rng(h, dipole) ==
    IF UGt(dipole, h.num_dipoles)
    THEN [ret |-> 0, seeds |-> <<>>]
    ELSE [ret   |-> DipoleReg(h, dipole * AINED_REG_DIPOLE_NUM_REG_PD + 0),
          seeds |-> << DipoleReg(h, dipole * AINED_REG_DIPOLE_NUM_REG_PD + 1),
                       DipoleReg(h, dipole * AINED_REG_DIPOLE_NUM_REG_PD + 2),
                       DipoleReg(h, dipole * AINED_REG_DIPOLE_NUM_REG_PD + 3) >>]

\* uint32_t ained_get_num_dipoles(handle)
ained_get_num_dipoles(h) == h.num_dipoles

\* ained_set_dipole_rng that counts a dipole it is given seeds for just behind
\* the last one as a new dipole.
ained_set_dipole_rng_extending(h, dipole, s0, s1, s2) ==
    IF UGt(dipole, h.num_dipoles)
    THEN h
    ELSE LET h1 == DipoleRegWrite(h,  dipole * AINED_REG_DIPOLE_NUM_REG_PD + 1, s0)
             h2 == DipoleRegWrite(h1, dipole * AINED_REG_DIPOLE_NUM_REG_PD + 2, s1)
             h3 == DipoleRegWrite(h2, dipole * AINED_REG_DIPOLE_NUM_REG_PD + 3, s2)
         IN  [h3 EXCEPT !.num_dipoles = IF dipole = @ THEN @ + 1 ELSE @]

ained_set_dipole_rng(h, dipole, s0, s1, s2) ==
    IF UGt(dipole, h.num_dipoles)
    THEN h
    ELSE LET h1 == DipoleRegWrite(h,  dipole * AINED_REG_DIPOLE_NUM_REG_PD + 1, s0)
             h2 == DipoleRegWrite(h1, dipole * AINED_REG_DIPOLE_NUM_REG_PD + 2, s1)
         IN  DipoleRegWrite(h2, dipole * AINED_REG_DIPOLE_NUM_REG_PD + 3, s2)

-----------------------------------------------------------------------------
(* Coefficient tables *)

\* A factor is the fraction <<numerator, denominator>>.  The factors used are
\* 0, 1/2 and 1, whose integer powers and their products with 256 are exact in
\* binary floating point, so the arithmetic below is the code's, and the 7/10
\* and 7 the command line can pass, for which the rounded fraction and the
\* rounded floating-point product are the same byte at every distance.

Max(a, b) == IF a > b THEN a ELSE b

Min(a, b) == IF a < b THEN a ELSE b

RECURSIVE IntPow(_, _)
IntPow(a, n) == IF n <= 0 THEN 1 ELSE a * IntPow(a, n - 1)

\* pow(factor, distance) for a whole distance, as a fraction.
Pow(factor, distance) ==
    << IntPow(factor[1], distance), IntPow(factor[2], distance) >>

\* uint8_t v = fmin(round(f * 256), 255.0) for f >= 0: round() rounds half
\* away from zero.
FixedPoint(f) ==
    Min((2 * f[1] * 256 + f[2]) \div (2 * f[2]), 255)

\* ained_set_coefficients_manhattan without the test of the distance against
\* reach.
ManhattanField_unbounded(factor, reach, r, c) ==
    LET distance == Max(0, r + c - 1)
    IN  IF distance > 0
        THEN FixedPoint(Pow(factor, distance))
        ELSE FixedPoint(<<0, 1>>)

\* The byte ained_set_coefficients_manhattan stores for position (r, c).
ManhattanField(factor, reach, r, c) ==
    LET distance == Max(0, r + c - 1)
    IN  IF distance > 0 /\ distance <= reach
        THEN FixedPoint(Pow(factor, distance))
        ELSE FixedPoint(<<0, 1>>)

\* fmin(round(pow(0.7f, sqrt(n) - 1) * 256), 255.0) for the n = r * r + c * c
\* of the quadrant with sqrt(n) > 1: the bytes of the factor the command line
\* passes by default, none of which is near a rounding boundary.
EuclideanDefaultBytes ==
    (2 :> 221) @@ (4 :> 179) @@ (5 :> 165) @@ (8 :> 133) @@ (9 :> 125)
    @@ (10 :> 118) @@ (13 :> 101) @@ (16 :> 88) @@ (17 :> 84) @@ (18 :> 81)
    @@ (20 :> 74) @@ (25 :> 61) @@ (32 :> 49)

\* The byte ained_set_coefficients_euclidean stores for position (r, c).  The
\* distance is sqrt(r * r + c * c) - 1, computed without rounding error in the
\* comparisons: it is > 0 iff r * r + c * c > 1, and <= reach iff
\* r * r + c * c <= (reach + 1)^2, where r * r + c * c is 32 at most so that a
\* reach + 1 above 6 decides as 6 does.  The factor is 0, 7/10, or 1 and
\* above here; for d > 0, pow(0, d) is 0 and pow(f, d) is 1 at least for
\* f >= 1, which fmin caps at 255.
EuclideanField(factor, reach, r, c) ==
    IF /\ r * r + c * c > 1
       /\ r * r + c * c <= Min(reach + 1, 6) * Min(reach + 1, 6)
    THEN IF factor = <<7, 10>>
         THEN EuclideanDefaultBytes[r * r + c * c]
         ELSE FixedPoint(IF factor[1] >= factor[2] THEN <<1, 1>> ELSE <<0, 1>>)
    ELSE FixedPoint(<<0, 1>>)

\* Both tables at AINED_REG_COEFF_0.
CoeffBase_shared(co_index) == 1

\* The first byte, counted from 1, of the table co_index selects:
\* AINED_REG_COEFF_0 for AINED_COEFF_HIGH (0), AINED_REG_COEFF_6 otherwise.
CoeffBase(co_index) == IF co_index = 0 THEN 1 ELSE 25

\* *((coeffs *)&reg[...]) = cfs, where cfs.fields[r * 5 + c - 1] is the byte of
\* position (r, c) and position (0, 0) has no byte.
ained_set_coefficients_euclidean(h, factor, reach, co_index) ==
    [h EXCEPT !.coeff =
        [i \in DOMAIN @ |->
            IF i \in CoeffBase(co_index) .. (CoeffBase(co_index) + 23)
            THEN LET ind == i - CoeffBase(co_index)
                 IN  EuclideanField(factor, reach, (ind + 1) \div 5, (ind + 1) % 5)
            ELSE @[i]]]

ained_set_coefficients_manhattan(h, factor, reach, co_index) ==
    [h EXCEPT !.coeff =
        [i \in DOMAIN @ |->
            IF i \in CoeffBase(co_index) .. (CoeffBase(co_index) + 23)
            THEN LET ind == i - CoeffBase(co_index)
                 IN  ManhattanField(factor, reach, (ind + 1) \div 5, (ind + 1) % 5)
            ELSE @[i]]]

-----------------------------------------------------------------------------
(* Store and restore *)

\* The file system maps a file name, <<filename, extension>>, to its contents.

\* What ained_store_memory writes to <filename>.mem: the 128 grid words, kept
\* as the set of their set bits.
MemImage(h) ==
    UNION { { <<j, b>> : b \in HwRead(h, j) } : j \in 0 .. (num_words - 1) }

\* What ained_store_memory writes to <filename>.state: the AINED_NUM_REGS
\* 32-bit registers (write mask, coefficients, bypass) and then the
\* num_dipoles * AINED_REG_DIPOLE_NUM_REG_PD dipole registers.
StateImage(h) ==
    [ maskreg |-> h.maskreg, coeff |-> h.coeff, bypass |-> h.bypass,
      dipoles |-> [i \in 1 .. (h.num_dipoles * AINED_REG_DIPOLE_NUM_REG_PD) |->
                      DipoleReg(h, i - 1)] ]

\* fopen(name, "wb") and fwrite of the contents.
FileWrite(fs, name, contents) ==
    [n \in DOMAIN fs \cup {name} |-> IF n = name THEN contents ELSE fs[n]]

ained_store_memory(h, filename) ==
    LET fs1 == FileWrite(h.files, <<filename, ".mem">>, MemImage(h))
    IN  [h EXCEPT !.files = FileWrite(fs1, <<filename, ".state">>, StateImage(h))]

\* fread into handle->memory: one store to each of the 128 grid words.
RestoreWords(h, image) ==
    [h EXCEPT !.memory =
        UNION { { <<j, b>> : b \in HwStore(h, j, { p[2] : p \in { q \in image : q[1] = j } }) } :
                j \in 0 .. (num_words - 1) }]

\* fread into handle->registers and into the dipole registers.
RestoreState(h, image) ==
    [h EXCEPT !.maskreg = image.maskreg,
              !.coeff   = image.coeff,
              !.bypass  = image.bypass,
              !.dipoles = [i \in DOMAIN @ |->
                              IF i \in DOMAIN image.dipoles
                                 /\ i <= h.num_dipoles * AINED_REG_DIPOLE_NUM_REG_PD
                              THEN image.dipoles[i]
                              ELSE @[i]]]

\* ained_restore_memory that reads the grid words without enabling bypass.
ained_restore_memory_nobypass(h, filename) ==
    IF <<filename, ".mem">> \notin DOMAIN h.files
    THEN h
    ELSE LET h2 == RestoreWords(h, h.files[<<filename, ".mem">>])
             h3 == ained_set_bypass(h2, FALSE)
         IN  IF <<filename, ".state">> \notin DOMAIN h.files
             THEN h3
             ELSE RestoreState(h3, h.files[<<filename, ".state">>])

ained_restore_memory(h, filename) ==
    IF <<filename, ".mem">> \notin DOMAIN h.files
    THEN h
    ELSE LET h1 == ained_set_bypass(h, TRUE)
             h2 == RestoreWords(h1, h.files[<<filename, ".mem">>])
             h3 == ained_set_bypass(h2, FALSE)
         IN  IF <<filename, ".state">> \notin DOMAIN h.files
             THEN h3
             ELSE RestoreState(h3, h.files[<<filename, ".state">>])

\* The diagnostic ained_restore_memory prints when fopen fails, "" otherwise.
ained_restore_memory_err(h, filename) ==
    IF \/ <<filename, ".mem">> \notin DOMAIN h.files
       \/ <<filename, ".state">> \notin DOMAIN h.files
    THEN "Failed to store memory to file"
    ELSE ""

-----------------------------------------------------------------------------
(* Single-bit access *)

ained_get_bit(h, row, col) ==
    LET of == ained_get_index(row, col)
        id == ained_get_word_index(row, col)
    IN  IF Bit(id) \cap HwRead(h, of) # {} THEN 1 ELSE 0

\* handle->memory[word_index] ^= (1ULL << bit_index): a load and a store.
ained_flip_isolated_bit(h, row, col) ==
    LET word_index == ained_get_index(row, col)
        bit_index  == ained_get_word_index(row, col)
    IN  HwWrite(h, word_index, Xor(HwRead(h, word_index), Bit(bit_index)))

-----------------------------------------------------------------------------
(* Lights Out: src/mod_lightsout.c *)

\* The calloc'ed array board[num_col * row + col], as a function of the index.
ained_get_board(h, start_row, start_col, num_row, num_col) ==
    [i \in 0 .. (num_row * num_col - 1) |->
        ained_get_bit(h, start_row + (i \div num_col), start_col + (i % num_col))]

\* The bounds check of ained_flip_lights: TRUE when the call returns at once.
FlipRejects(start_row, start_col, num_row, num_col, row, col) ==
    \/ ULt(row, start_row)
    \/ UGt(row, start_row + num_row - 1)
    \/ ULt(col, start_col)
    \/ UGt(col, start_col + num_col - 1)

\* The state after ained_clear_memory, ained_set_bit and ained_commit (step 3).
FlipCommitted(h, start_row, start_col, row, col) ==
    LET h1 == ained_clear_memory(h)
        h2 == ained_set_bit(h1, start_row + row, start_col + col, 1)
    IN  ained_commit(h2)

\* for (i = 0; i < num_row * num_col; i++) if (old_board[i] == 1) flip, from i on.
RECURSIVE FlipRestore(_, _, _, _, _, _)
FlipRestore(h, old_board, start_row, start_col, num_col, i) ==
    IF i \in DOMAIN old_board
    THEN FlipRestore(IF old_board[i] = 1
                     THEN ained_flip_isolated_bit(h, start_row + (i \div num_col),
                                                     start_col + (i % num_col))
                     ELSE h,
                     old_board, start_row, start_col, num_col, i + 1)
    ELSE h

\* "Flip outmost bits of the cross": the four guarded neighbour toggles.
FlipCross(h, start_row, start_col, num_row, num_col, row, col) ==
    LET h1 == IF UGt(row, 0)
              THEN ained_flip_isolated_bit(h, start_row + row - 1, start_col + col)
              ELSE h
        h2 == IF ULt(row, num_row - 1)
              THEN ained_flip_isolated_bit(h1, start_row + row + 1, start_col + col)
              ELSE h1
        h3 == IF UGt(col, 0)
              THEN ained_flip_isolated_bit(h2, start_row + row, start_col + col - 1)
              ELSE h2
    IN  IF ULt(col, num_col - 1)
        THEN ained_flip_isolated_bit(h3, start_row + row, start_col + col + 1)
        ELSE h3

\* The cells ained_flip_lights addresses: the cell it sets in step 3 and the
\* neighbours its four guards let it toggle.
FlipTouched(start_row, start_col, num_row, num_col, row, col) ==
    { <<start_row + row, start_col + col>> }
    \cup (IF UGt(row, 0) THEN { <<start_row + row - 1, start_col + col>> } ELSE {})
    \cup (IF ULt(row, num_row - 1) THEN { <<start_row + row + 1, start_col + col>> } ELSE {})
    \cup (IF UGt(col, 0) THEN { <<start_row + row, start_col + col - 1>> } ELSE {})
    \cup (IF ULt(col, num_col - 1) THEN { <<start_row + row, start_col + col + 1>> } ELSE {})

\* ained_flip_lights that makes its direct writes without enabling bypass.
FlipBypassed_notenabled(h, start_row, start_col, row, col) ==
    FlipCommitted(h, start_row, start_col, row, col)

\* The state in which ained_flip_lights makes its direct writes: after
\* ained_set_bypass(handle, true).
FlipBypassed(h, start_row, start_col, row, col) ==
    ained_set_bypass(FlipCommitted(h, start_row, start_col, row, col), TRUE)

\* old_board[0 .. k - 1]: the part of the restore loop done before index k.
BoardPrefix(old_board, k) ==
    [i \in { j \in DOMAIN old_board : j < k } |-> old_board[i]]

\* The states in which ained_flip_lights calls ained_flip_isolated_bit in its
\* restore loop, and the states before and after its neighbour toggles.
FlipWriteStates(h, start_row, start_col, num_row, num_col, row, col) ==
    LET old_board == ained_get_board(h, start_row, start_col, num_row, num_col)
        h4 == FlipBypassed(h, start_row, start_col, row, col)
        h5 == FlipRestore(h4, old_board, start_row, start_col, num_col, 0)
    IN  { FlipRestore(h4, BoardPrefix(old_board, k), start_row, start_col, num_col, 0) :
            k \in { j \in DOMAIN old_board : old_board[j] = 1 } }
        \cup { h5, FlipCross(h5, start_row, start_col, num_row, num_col, row, col) }

ained_flip_lights(h, start_row, start_col, num_row, num_col, row, col) ==
    IF FlipRejects(start_row, start_col, num_row, num_col, row, col)
    THEN h
    ELSE LET old_board == ained_get_board(h, start_row, start_col, num_row, num_col)
             h4 == FlipBypassed(h, start_row, start_col, row, col)
             h5 == FlipRestore(h4, old_board, start_row, start_col, num_col, 0)
             h6 == FlipCross(h5, start_row, start_col, num_row, num_col, row, col)
         IN  ained_set_bypass(h6, FALSE)

\* The two nested loops of ained_reconstruct_board from index = i on: one
\* ained_set_bit per cell, in row-major order.
RECURSIVE ReconstructBits(_, _, _, _, _, _, _)
ReconstructBits(h, board, start_row, start_col, num_row, num_col, i) ==
    IF i < num_row * num_col
    THEN ReconstructBits(ained_set_bit(h, start_row + (i \div num_col),
                                          start_col + (i % num_col), board[i]),
                         board, start_row, start_col, num_row, num_col, i + 1)
    ELSE h

ained_reconstruct_board(h, board, start_row, start_col, num_row, num_col) ==
    LET h1 == ained_set_bypass(h, TRUE)
        h2 == ReconstructBits(h1, board, start_row, start_col, num_row, num_col, 0)
        h3 == ained_commit(h2)
    IN  ained_set_bypass(h3, FALSE)

-----------------------------------------------------------------------------
(* Command line: src/main.c *)

\* A C string is the sequence of its characters.  The line readline returned
\* lies in memory as its characters, the terminator NUL and then the bytes
\* the heap holds behind it; a char pointer is an offset into that text, and
\* a handler that adds more to the pointer than the line is long reads the
\* heap bytes.
NUL == ""

Digits == <<"0", "1", "2", "3", "4", "5", "6", "7", "8", "9">>

Uppers == <<"C", "Q", "S", "U">>

Lowers == <<"c", "q", "s", "u">>

\* tolower, for the letters the input lines use.
ToLower(c) ==
    IF \E i \in DOMAIN Uppers : Uppers[i] = c
    THEN Lowers[CHOOSE i \in DOMAIN Uppers : Uppers[i] = c]
    ELSE c

\* The character of C string str at offset i, NUL from its end on.
CharAt(str, i) == IF i + 1 \in DOMAIN str THEN str[i + 1] ELSE NUL

\* strlen(text + off)
RECURSIVE StrLen(_, _)
StrLen(text, off) ==
    IF CharAt(text, off) = NUL THEN 0 ELSE 1 + StrLen(text, off + 1)

\* The C string at text + off.
CStr(text, off) == SubSeq(text, off + 1, off + StrLen(text, off))

\* strncmp(a, b, n) == 0
StrNEq(a, b, n) ==
    \A i \in 0 .. (n - 1) :
        (\A j \in 0 .. (i - 1) : CharAt(a, j) # NUL) => CharAt(a, i) = CharAt(b, i)

\* strncasecmp(a, b, n) == 0
StrNCaseEq(a, b, n) ==
    StrNEq([i \in DOMAIN a |-> ToLower(a[i])], [i \in DOMAIN b |-> ToLower(b[i])], n)

\* The value of the digit c in the base, -1 when c is no digit of it.
DigitOf(c, base) ==
    IF \E d \in 0 .. (base - 1) : Digits[d + 1] = c
    THEN CHOOSE d \in 0 .. (base - 1) : Digits[d + 1] = c
    ELSE -1

\* The number the digits of str from offset i on spell, after acc.
RECURSIVE DigitsValue(_, _, _, _)
DigitsValue(str, i, base, acc) ==
    IF DigitOf(CharAt(str, i), base) < 0
    THEN acc
    ELSE DigitsValue(str, i + 1, base, acc * base + DigitOf(CharAt(str, i), base))

\* The number of digits of str from offset i on.
RECURSIVE DigitsLen(_, _)
DigitsLen(str, i) ==
    IF DigitOf(CharAt(str, i), 10) < 0 THEN 0 ELSE 1 + DigitsLen(str, i + 1)

\* (uint32_t) strtoul(str, NULL, 0) for unsigned decimal and octal numerals
\* below 2^31: text that starts with no digit converts to 0.
strtoul(str) ==
    IF CharAt(str, 0) = "0"
    THEN DigitsValue(str, 1, 8, 0)
    ELSE DigitsValue(str, 0, 10, 0)

\* strtod(str, NULL) for unsigned decimal numerals, as a fraction.
strtod(str) ==
    LET whole == DigitsLen(str, 0)
        frac  == IF CharAt(str, whole) = "." THEN DigitsLen(str, whole + 1) ELSE 0
    IN  IF frac = 0
        THEN << DigitsValue(str, 0, 10, 0), 1 >>
        ELSE << DigitsValue(str, whole + 1, 10, DigitsValue(str, 0, 10, 0)),
                IntPow(10, frac) >>

\* The tokens strtok_r(str, " ", &saveptr) yields from offset i on, cur being
\* the token begun.
RECURSIVE Tokens(_, _, _)
Tokens(str, i, cur) ==
    IF i >= Len(str)
    THEN IF cur = <<>> THEN <<>> ELSE <<cur>>
    ELSE IF str[i + 1] = " "
    THEN (IF cur = <<>> THEN <<>> ELSE <<cur>>) \o Tokens(str, i + 1, <<>>)
    ELSE Tokens(str, i + 1, Append(cur, str[i + 1]))

\* The variables row, column, value and count of set_memory after the tokens
\* from the i-th on: an argument out of range prints a diagnostic and leaves
\* its variable as it was.
RECURSIVE SetMemoryScan(_, _, _)
SetMemoryScan(toks, i, acc) ==
    IF i > Len(toks)
    THEN acc
    ELSE LET v == strtoul(toks[i])
         IN  SetMemoryScan(toks, i + 1,
                 [ row    |-> IF acc.count = 0 /\ ~(v > 127) THEN v ELSE acc.row,
                   column |-> IF acc.count = 1 /\ ~(v > 63) THEN v ELSE acc.column,
                   value  |-> IF acc.count = 2 /\ (v = 0 \/ v = 1) THEN v ELSE acc.value,
                   count  |-> acc.count + 1 ])

set_memory(h, text) ==
    LET amemory == CStr(text, 4)
        args    == SetMemoryScan(Tokens(amemory, 0, <<>>), 1,
                                 [row |-> 0, column |-> 0, value |-> 0, count |-> 0])
    IN  IF amemory = <<>>
        THEN h
        ELSE IF args.count # 3
        THEN h
        ELSE ained_set_bit(h, args.row, args.column, args.value)

commit_memory(h, text) == ained_commit(h)

clear_memory(h, text) == ained_clear_memory(h)

store_memory(h, text) ==
    LET filename == CStr(text, 5 + 1)
    IN  IF filename # <<>> THEN ained_store_memory(h, filename) ELSE h

restore_memory(h, text) ==
    LET filename == CStr(text, 7 + 1)
    IN  IF filename # <<>> THEN ained_restore_memory(h, filename) ELSE h

\* The masks 0xAAAAAAAAAAAAAAAA and 0x8000800080008000 of test_memory.
TestMaskOdd == { b \in AllOnes : b % 2 = 1 }

test_memory(h, text) ==
    LET h1 == ained_set_mask(h, TestMaskOdd)
        h2 == ained_set_word(h1, 13, AllOnes)
        h3 == ained_commit(h2)
        h4 == ained_set_mask(h3, {15, 31, 47, 63})
    IN  HwWrite(h4, 1, AllOnes)

\* The table and the factor update_coeffs_euclidian and
\* update_coeffs_manhattan pass on: <<index, factor>>.
UpdateCoeffsArgs(text) ==
    LET value0 == 23 + 1
        which  == IF StrNEq(CStr(text, value0), <<"h", "i", "g", "h">>, 4) THEN 0
                  ELSE IF StrNEq(CStr(text, value0), <<"l", "o", "w">>, 3) THEN 1
                  ELSE 0
        arg    == IF StrNEq(CStr(text, value0), <<"h", "i", "g", "h">>, 4) THEN value0 + 5
                  ELSE IF StrNEq(CStr(text, value0), <<"l", "o", "w">>, 3) THEN value0 + 4
                  ELSE value0
    IN  << which, IF CharAt(text, arg) # NUL THEN strtod(CStr(text, arg)) ELSE <<7, 10>> >>

update_coeffs_euclidian(h, text) ==
    LET a == UpdateCoeffsArgs(text)
    IN  ained_set_coefficients_euclidean(h, a[2], 999999, a[1])

update_coeffs_manhattan(h, text) ==
    LET a == UpdateCoeffsArgs(text)
    IN  ained_set_coefficients_manhattan(h, a[2], 999999, a[1])

\* Commands character_names[]: exec is the name of the handler, "NULL" for
\* quit.
character_names ==
    << [command |-> <<"q", "u", "i", "t">>,
        exec |-> "NULL"],
       [command |-> <<"p", "r", "i", "n", "t">>,
        exec |-> "print_memory"],
       [command |-> <<"i", "n", "f", "o">>,
        exec |-> "print_info"],
       [command |-> <<"c", "o", "e", "f", "f", "s">>,
        exec |-> "print_coeffs"],
       [command |-> <<"u", "p", "d", "a", "t", "e", "_", "c", "o", "e", "f", "f", "s", "_", "e", "u", "c", "l", "i", "d", "i", "a", "n">>,
        exec |-> "update_coeffs_euclidian"],
       [command |-> <<"u", "p", "d", "a", "t", "e", "_", "c", "o", "e", "f", "f", "s", "_", "m", "a", "n", "h", "a", "t", "t", "a", "n">>,
        exec |-> "update_coeffs_manhattan"],
       [command |-> <<"c", "o", "m", "m", "i", "t">>,
        exec |-> "commit_memory"],
       [command |-> <<"s", "e", "t">>,
        exec |-> "set_memory"],
       [command |-> <<"c", "l", "e", "a", "r">>,
        exec |-> "clear_memory"],
       [command |-> <<"s", "t", "o", "r", "e">>,
        exec |-> "store_memory"],
       [command |-> <<"r", "e", "s", "t", "o", "r", "e">>,
        exec |-> "restore_memory"],
       [command |-> <<"t", "e", "s", "t">>,
        exec |-> "test_memory"],
       [command |-> <<"h", "e", "l", "p">>,
        exec |-> "help_list"] >>

\* c->exec(handle, inp)
Exec(exec, h, text) ==
    CASE exec = "set_memory"              -> set_memory(h, text)
      [] exec = "commit_memory"           -> commit_memory(h, text)
      [] exec = "clear_memory"            -> clear_memory(h, text)
      [] exec = "store_memory"            -> store_memory(h, text)
      [] exec = "restore_memory"          -> restore_memory(h, text)
      [] exec = "test_memory"             -> test_memory(h, text)
      [] exec = "update_coeffs_euclidian" -> update_coeffs_euclidian(h, text)
      [] exec = "update_coeffs_manhattan" -> update_coeffs_manhattan(h, text)
      [] OTHER                            -> h

\* The for loop of main over character_names from entry i on: the handle, the
\* handlers run and whether the loop variable quit was cleared.
RECURSIVE Dispatch(_, _, _, _)
Dispatch(i, h, text, ran) ==
    IF i > Len(character_names)
    THEN [h |-> h, handlers |-> ran, quit |-> FALSE]
    ELSE LET c   == character_names[i]
             inp == CStr(text, 0)
         IN  IF StrNCaseEq(inp, c.command, Min(Len(c.command), Len(inp)))
             THEN IF c.exec = "NULL"
                  THEN [h |-> h, handlers |-> ran, quit |-> TRUE]
                  ELSE Dispatch(i + 1, Exec(c.exec, h, text), text, Append(ran, c.exec))
             ELSE Dispatch(i + 1, h, text, ran)

-----------------------------------------------------------------------------
(* Inputs *)

\* The grid words in which exactly the cells of the set cells are lit.
BoardOf(cells) ==
    { <<ained_get_index(c[1], c[2]), ained_get_word_index(c[1], c[2])>> : c \in cells }

\* Grid contents found at start-up: the device memory outlives the process.
InitBoards ==
    { BoardOf({}),
      BoardOf({<<0, 0>>, <<1, 1>>, <<1, 7>>, <<8, 8>>, <<20, 20>>}),
      BoardOf({<<0, 1>>, <<1, 0>>, <<1, 7>>, <<2, 2>>, <<7, 7>>, <<7, 8>>, <<13, 3>>}) }

\* Arguments of ained_set_bit: two cells of word 0 and one of word 1.
SetBitArgs ==
    { <<7, 7, 1>>, <<6, 6, 0>>, <<6, 6, 1>>, <<0, 8, 1>> }

\* 0x8000800080008000, the mask test_memory leaves behind (src/main.c).
TestMask == {15, 31, 47, 63}

\* Arguments of ained_set_mask.
SetMaskArgs == { TestMask }

\* Arguments of ained_set_word, as in test_memory (src/main.c).
SetWordArgs == { <<13, AllOnes>> }

\* Sub-regions <<start_row, start_col, num_row, num_col>> inside the grid: at
\* the origin, off the origin, and across the corner shared by words 0, 1, 8
\* and 9.
Regions ==
    { <<0, 0, 2, 3>>, <<1, 1, 2, 2>>, <<7, 7, 2, 2>> }

\* The cells of a sub-region, by their grid coordinates.
RegionCells(reg) ==
    { <<r, c>> : r \in reg[1] .. (reg[1] + reg[3] - 1),
                 c \in reg[2] .. (reg[2] + reg[4] - 1) }

\* Calls of ained_flip_lights whose target cell lies inside the sub-region.
FlipArgs ==
    UNION { { <<reg[1], reg[2], reg[3], reg[4], t[1], t[2]>> : t \in RegionCells(reg) } :
            reg \in Regions }

\* Board arrays for a sub-region: all lit, all dark, and every other cell
\* non-zero with a value other than 1.
Boards(reg) ==
    { [i \in 0 .. (reg[3] * reg[4] - 1) |-> 1],
      [i \in 0 .. (reg[3] * reg[4] - 1) |-> 0],
      [i \in 0 .. (reg[3] * reg[4] - 1) |-> IF i % 2 = 0 THEN 2 ELSE 0] }

\* Calls of ained_reconstruct_board: <<start_row, start_col, num_row, num_col, board>>.
ReconstructArgs ==
    UNION { { <<reg[1], reg[2], reg[3], reg[4], b>> : b \in Boards(reg) } : reg \in Regions }

\* The dipole registers of a device with n dipoles: the first register of a
\* dipole is its random output, the other three are its seeds.
DipoleBank(n) ==
    [i \in 1 .. ((MaxDipoles + 1) * AINED_REG_DIPOLE_NUM_REG_PD) |->
        IF (i - 1) \div AINED_REG_DIPOLE_NUM_REG_PD < n
        THEN 6 + i
        ELSE 0]

\* Arguments of ained_set_dipole_rng and ained_get_dipole_rng.
DipoleArgs == 0 .. (MaxDipoles + 1)

\* Register blocks a device can show at start-up, as <<random output, seed0,
\* seed1, seed2>>: a running dipole, a seeded dipole whose output reads 0, no
\* dipole, and a block with an output but no seeds.
ScanBlocks == { <<7, 8, 9, 10>>, <<0, 8, 9, 10>>, <<0, 0, 0, 0>>, <<7, 0, 0, 0>> }

\* The dipole registers ained_init can find: MaxDipoles + 1 blocks.
ScanBanks ==
    { [i \in 1 .. ((MaxDipoles + 1) * AINED_REG_DIPOLE_NUM_REG_PD) |->
          blocks[(i - 1) \div AINED_REG_DIPOLE_NUM_REG_PD + 1]
                [((i - 1) % AINED_REG_DIPOLE_NUM_REG_PD) + 1]] :
      blocks \in [1 .. (MaxDipoles + 1) -> ScanBlocks] }

\* Lines typed at the prompt: the empty line, single letters, command names,
\* and the set command with valid, out-of-range, non-numeric, missing and
\* surplus arguments.
Lines ==
    { <<>>,
      <<"c">>,
      <<"s">>,
      <<"q">>,
      <<"u">>,
      <<"x">>,
      <<"q", "u", "i", "t">>,
      <<"Q", "u", "i", "t">>,
      <<"c", "o", "m", "m", "i", "t">>,
      <<"c", "l", "e", "a", "r">>,
      <<"c", "o", "e", "f", "f", "s">>,
      <<"p", "r", "i", "n", "t">>,
      <<"i", "n", "f", "o">>,
      <<"h", "e", "l", "p">>,
      <<"t", "e", "s", "t">>,
      <<"s", "e", "t", " ", "1", " ", "2", " ", "1">>,
      <<"s", "e", "t", " ", "3", " ", "9", " ", "0">>,
      <<"s", "e", "t", " ", "2", "0", "0", " ", "5", " ", "1">>,
      <<"s", "e", "t", " ", "1", " ", "6", "4", " ", "1">>,
      <<"s", "e", "t", " ", "1", " ", "2", " ", "7">>,
      <<"s", "e", "t", " ", "x", " ", "2", " ", "1">>,
      <<"s", "e", "t", " ", "1", " ", "2">>,
      <<"s", "e", "t", " ", "1", " ", "2", " ", "1", " ", "0">>,
      <<"s", "t", "o", "r", "e", " ", "a">>,
      <<"r", "e", "s", "t", "o", "r", "e", " ", "a">>,
      <<"u", "p", "d", "a", "t", "e", "_", "c", "o", "e", "f", "f", "s", "_", "m", "a", "n", "h", "a", "t", "t", "a", "n", " ", "l", "o", "w", " ", "0", ".", "5">>,
      <<"u", "p", "d", "a", "t", "e", "_", "c", "o", "e", "f", "f", "s", "_", "e", "u", "c", "l", "i", "d", "i", "a", "n", " ", "h", "i", "g", "h", " ", "1">>,
      <<"u", "p", "d", "a", "t", "e", "_", "c", "o", "e", "f", "f", "s", "_", "e", "u", "c", "l", "i", "d", "i", "a", "n">> }

\* What the heap holds behind the terminator of the line: nothing, or text.
HeapTails == { <<>>, <<"7", " ", "1", " ", "2", " ", "1">> }

SeedArgs == { <<21, 22, 23>> }

\* Factors of ained_set_coefficients_manhattan: 0, 1/2 and 1.
ManhattanFactors == { <<0, 1>>, <<1, 2>>, <<1, 1>> }

\* Factors of ained_set_coefficients_euclidean: 0 and 1.
EuclideanFactors == { <<0, 1>>, <<1, 1>> }

\* Reaches: none, short, medium, and the 999999 the command line passes.
ReachArgs == { 0, 1, 3, 999999 }

\* AINED_COEFF_HIGH and AINED_COEFF_LOW.
CoeffIndexArgs == { 0, 1 }

\* Dipoles reseeded between a store and a restore: the first one and the
\* index just behind the last one.
ReseedDipoles == { 0, 1 }

\* File names given to ained_store_memory and ained_restore_memory.
FileNames == { "a", "b" }

\* Cells toggled between a store and a restore: one of word 0, one of word 9.
ScribbleCells == { <<0, 0>>, <<8, 8>> }

\* Offsets given to ained_set_word: inside the grid, its last word, the first
\* word behind it, and 0xFFFFFFFF (held as -1).
RawOffsets == { 13, 127, 128, -1 }

\* Sub-regions without cells: num_row = 0 or num_col = 0, at and off the
\* origin.
EmptyRegions ==
    { <<0, 0, 0, 0>>, <<0, 0, 0, 2>>, <<0, 0, 2, 0>>, <<1, 1, 0, 0>>, <<1, 0, 0, 2>> }

\* Targets of ained_flip_lights on a sub-region without cells.
EmptyTargets == { <<0, 0>>, <<0, 1>>, <<1, 1>>, <<5, 5>> }

-----------------------------------------------------------------------------
(* State machine *)

\* No request: nothing was asked for since the last commit.
NoReq == [bits |-> {}, ones |-> {}, plain |-> FALSE]

\* No result: the call returns nothing and writes through no pointer.
NoOut == [ret |-> 0, seeds |-> <<>>]

\* The command loop before its first line.
NoCli == [handlers |-> <<>>, quit |-> FALSE, eof |-> FALSE]

\* The registers and the file system at start-up, on a device with n dipoles.
InitRegisters(n) ==
    /\ coeff = [i \in 1 .. 48 |-> 0]
    /\ dipoles = DipoleBank(n)
    /\ num_dipoles = CountDipoles(dipoles, 0)
    /\ files = [name \in {} |-> {}]
    /\ out = NoOut
    /\ stored = [name \in {} |-> {}]
    /\ cli = NoCli

Init ==
    /\ InitRegisters(1)
    /\ memory \in InitBoards
    /\ maskreg = {}
    /\ bypass = 0
    /\ index = -1
    /\ mask = {}
    /\ value = {}
    /\ fault = FALSE
    /\ last = [op |-> "ained_init", args |-> <<>>, err |-> "", pre |-> <<>>, req |-> NoReq]
    /\ req = NoReq
    /\ steps = 0

\* The requests after the call op(args) that printed err.  bits are the bit
\* positions asked for, ones those last asked to be 1; plain says that the
\* transaction began with nothing pending and bypass disabled and that only
\* accepted ained_set_bit calls were made since.
ReqAfter(op, args, err) ==
    IF op = "ained_commit"
    THEN NoReq
    ELSE IF op = "ained_set_bit" /\ err = ""
    THEN LET id   == ained_get_word_index(args[1], args[2])
             base == IF index < 0 THEN [NoReq EXCEPT !.plain = (bypass = 0)] ELSE req
         IN  [base EXCEPT !.bits = @ \cup {id},
                          !.ones = IF args[3] # 0 THEN @ \cup {id} ELSE @ \ {id}]
    ELSE [req EXCEPT !.plain = FALSE]

\* The handle went from H to h in op(args), which printed err and gave res.
Called(h, op, args, err, res) ==
    /\ memory'  = h.memory
    /\ coeff'   = h.coeff
    /\ dipoles' = h.dipoles
    /\ num_dipoles' = h.num_dipoles
    /\ files'   = h.files
    /\ out'     = res
    /\ maskreg' = h.maskreg
    /\ bypass'  = h.bypass
    /\ index'   = h.index
    /\ mask'    = h.mask
    /\ value'   = h.value
    /\ fault'   = h.fault
    /\ last'    = [op |-> op, args |-> args, err |-> err, pre |-> H, req |-> req]
    /\ req'     = ReqAfter(op, args, err)
    /\ steps'   = steps + 1

\* The call op(args) took the handle from H to h, printed err and gave res.
ReturnsWith(h, op, args, err, res) ==
    /\ Called(h, op, args, err, res)
    /\ cli' = cli

\* The call op(args) took the handle from H to h and printed err.
Returns(h, op, args, err) ==
    /\ ReturnsWith(h, op, args, err, NoOut)
    /\ stored' = stored

\* A call of ained_set_bit.
CallSetBit ==
    \E a \in SetBitArgs :
        Returns(ained_set_bit(H, a[1], a[2], a[3]), "ained_set_bit", a,
                ained_set_bit_err(H, a[1], a[2]))

SetBit == steps < MaxSteps /\ CallSetBit

Commit ==
    /\ steps < MaxSteps
    /\ Returns(ained_commit(H), "ained_commit", <<>>, ained_commit_err(H))

SetMask ==
    /\ steps < MaxSteps
    /\ \E m \in SetMaskArgs :
        Returns(ained_set_mask(H, m), "ained_set_mask", <<m>>, "")

SetWord ==
    /\ steps < MaxSteps
    /\ \E a \in SetWordArgs :
        Returns(ained_set_word(H, a[1], a[2]), "ained_set_word", a, "")

SetBypass ==
    /\ steps < MaxSteps
    /\ \E enable \in BOOLEAN :
        Returns(ained_set_bypass(H, enable), "ained_set_bypass", <<enable>>, "")

ClearMemory ==
    /\ steps < MaxSteps
    /\ Returns(ained_clear_memory(H), "ained_clear_memory", <<>>, "")

FlipLights ==
    /\ steps < MaxFlipSteps
    /\ \E a \in FlipArgs :
        Returns(ained_flip_lights(H, a[1], a[2], a[3], a[4], a[5], a[6]),
                "ained_flip_lights", a, "")

\* The memory and transaction interface of src/ained.c.
Next ==
    \/ SetBit
    \/ Commit
    \/ SetMask
    \/ SetWord
    \/ SetBypass
    \/ ClearMemory

Spec == Init /\ [][Next]_vars

\* The Lights-Out move of src/mod_lightsout.c on a handle whose transaction
\* buffer the caller may have used.
StageBit == steps < MaxFlipSteps /\ CallSetBit

NextFlip ==
    \/ FlipLights
    \/ StageBit

SpecFlip == Init /\ [][NextFlip]_vars

\* Loading a saved board into a sub-region, on a handle whose transaction
\* buffer the caller may have used.
ReconstructBoard ==
    /\ steps < MaxBoardSteps
    /\ \E a \in ReconstructArgs :
        Returns(ained_reconstruct_board(H, a[5], a[1], a[2], a[3], a[4]),
                "ained_reconstruct_board", a, "")

StageBoardBit == steps < MaxBoardSteps /\ CallSetBit

NextBoard ==
    \/ ReconstructBoard
    \/ StageBoardBit

SpecBoard == Init /\ [][NextBoard]_vars

\* The dipole seed registers, on devices with 0 .. MaxDipoles dipoles.
InitDipole ==
    /\ \E n \in 0 .. MaxDipoles : InitRegisters(n)
    /\ memory = BoardOf({})
    /\ maskreg = {}
    /\ bypass = 0
    /\ index = -1
    /\ mask = {}
    /\ value = {}
    /\ fault = FALSE
    /\ last = [op |-> "ained_init", args |-> <<>>, err |-> "", pre |-> <<>>, req |-> NoReq]
    /\ req = NoReq
    /\ steps = 0

SetDipoleRng ==
    /\ steps < MaxDipoleSteps
    /\ \E d \in DipoleArgs, s \in SeedArgs :
        Returns(ained_set_dipole_rng(H, d, s[1], s[2], s[3]),
                "ained_set_dipole_rng", <<d, s[1], s[2], s[3]>>, ained_dipole_err(H, d))

GetDipoleRng ==
    /\ steps < MaxDipoleSteps
    /\ \E d \in DipoleArgs :
        /\ ReturnsWith(H, "ained_get_dipole_rng", <<d>>, ained_dipole_err(H, d),
                       ained_get_dipole_rng(H, d))
        /\ stored' = stored

NextDipole ==
    \/ SetDipoleRng
    \/ GetDipoleRng

SpecDipole == InitDipole /\ [][NextDipole]_vars

SetCoefficientsEuclidean ==
    /\ steps < MaxCoeffSteps
    /\ \E factor \in EuclideanFactors, reach \in ReachArgs, co_index \in CoeffIndexArgs :
        Returns(ained_set_coefficients_euclidean(H, factor, reach, co_index),
                "ained_set_coefficients_euclidean", <<factor, reach, co_index>>, "")

SetCoefficientsManhattan ==
    /\ steps < MaxCoeffSteps
    /\ \E factor \in ManhattanFactors, reach \in ReachArgs, co_index \in CoeffIndexArgs :
        Returns(ained_set_coefficients_manhattan(H, factor, reach, co_index),
                "ained_set_coefficients_manhattan", <<factor, reach, co_index>>, "")

\* The two coefficient tables.
NextCoeff ==
    \/ SetCoefficientsEuclidean
    \/ SetCoefficientsManhattan

SpecCoeff == Init /\ [][NextCoeff]_vars

StoreMemory ==
    /\ steps < MaxStoreSteps
    /\ \E filename \in FileNames :
        /\ ReturnsWith(ained_store_memory(H, filename), "ained_store_memory",
                       <<filename>>, "", NoOut)
        /\ stored' = [n \in DOMAIN stored \cup {filename} |->
                         IF n = filename THEN H ELSE stored[n]]

RestoreMemory ==
    /\ steps < MaxStoreSteps
    /\ \E filename \in FileNames :
        Returns(ained_restore_memory(H, filename), "ained_restore_memory",
                <<filename>>, ained_restore_memory_err(H, filename))

\* What a program does to the grid and the registers between a store and a
\* restore.
WipeGrid ==
    /\ steps < MaxStoreSteps
    /\ Returns(ained_clear_memory(H), "ained_clear_memory", <<>>, "")

SwitchBypass ==
    /\ steps < MaxStoreSteps
    /\ \E enable \in BOOLEAN :
        Returns(ained_set_bypass(H, enable), "ained_set_bypass", <<enable>>, "")

FlipIsolatedBit ==
    /\ steps < MaxStoreSteps
    /\ \E cell \in ScribbleCells :
        Returns(ained_flip_isolated_bit(H, cell[1], cell[2]),
                "ained_flip_isolated_bit", cell, "")

Reseed ==
    /\ steps < MaxStoreSteps
    /\ \E d \in ReseedDipoles, s \in SeedArgs :
        Returns(ained_set_dipole_rng(H, d, s[1], s[2], s[3]),
                "ained_set_dipole_rng", <<d, s[1], s[2], s[3]>>, ained_dipole_err(H, d))

Retune ==
    /\ steps < MaxStoreSteps
    /\ Returns(ained_set_coefficients_manhattan(H, <<1, 2>>, 3, 0),
               "ained_set_coefficients_manhattan", << <<1, 2>>, 3, 0 >>, "")

NextStore ==
    \/ StoreMemory
    \/ RestoreMemory
    \/ WipeGrid
    \/ SwitchBypass
    \/ FlipIsolatedBit
    \/ Reseed
    \/ Retune

SpecStore == Init /\ [][NextStore]_vars

\* Raw word writes: ained_set_word with any 32-bit offset, mixed with
\* ained_set_bit and ained_commit.
SetRawWord ==
    /\ steps < MaxWordSteps
    /\ \E offset \in RawOffsets :
        Returns(ained_set_word(H, offset, AllOnes), "ained_set_word",
                <<offset, AllOnes>>, "")

StageWordBit == steps < MaxWordSteps /\ CallSetBit

CommitWord ==
    /\ steps < MaxWordSteps
    /\ Returns(ained_commit(H), "ained_commit", <<>>, ained_commit_err(H))

NextWord ==
    \/ SetRawWord
    \/ StageWordBit
    \/ CommitWord

SpecWord == Init /\ [][NextWord]_vars

\* ained_flip_lights on sub-regions without cells.
FlipEmptyRegion ==
    /\ steps < MaxEmptySteps
    /\ \E reg \in EmptyRegions, t \in EmptyTargets :
        Returns(ained_flip_lights(H, reg[1], reg[2], reg[3], reg[4], t[1], t[2]),
                "ained_flip_lights", <<reg[1], reg[2], reg[3], reg[4], t[1], t[2]>>, "")

NextEmpty == FlipEmptyRegion

SpecEmpty == Init /\ [][NextEmpty]_vars

\* The device before ained_init has run, with any of the register banks.
InitScan ==
    /\ coeff = [i \in 1 .. 48 |-> 0]
    /\ dipoles \in ScanBanks
    /\ num_dipoles = 0
    /\ files = [name \in {} |-> {}]
    /\ out = NoOut
    /\ stored = [name \in {} |-> {}]
    /\ cli = NoCli
    /\ memory = BoardOf({})
    /\ maskreg = {}
    /\ bypass = 0
    /\ index = -1
    /\ mask = {}
    /\ value = {}
    /\ fault = FALSE
    /\ last = [op |-> "power_on", args |-> <<>>, err |-> "", pre |-> <<>>, req |-> NoReq]
    /\ req = NoReq
    /\ steps = 0

\* ained_init, called once.
AinedInit ==
    /\ last.op = "power_on"
    /\ Returns(ained_init(H), "ained_init", <<>>, "")

\* ained_get_dipole_rng on the handle ained_init returned.
ProbeDipole ==
    /\ last.op # "power_on"
    /\ steps < MaxScanSteps
    /\ \E d \in DipoleArgs :
        /\ ReturnsWith(H, "ained_get_dipole_rng", <<d>>, ained_dipole_err(H, d),
                       ained_get_dipole_rng(H, d))
        /\ stored' = stored

NextScan ==
    \/ AinedInit
    \/ ProbeDipole

SpecScan == InitScan /\ [][NextScan]_vars

\* One pass of the while loop of main: readline returned line, which lies in
\* memory before the bytes heap, and the for loop ran over character_names.
ReadLine ==
    /\ ~cli.quit
    /\ ~cli.eof
    /\ steps < MaxCliSteps
    /\ \E line \in Lines, heap \in HeapTails :
        LET d == Dispatch(1, H, line \o <<NUL>> \o heap, <<>>)
        IN  /\ Called(d.h, "readline", <<line>>, "", NoOut)
            /\ stored' = stored
            /\ cli' = [handlers |-> d.handlers, quit |-> d.quit, eof |-> FALSE]

\* readline returned NULL: the loop is left.
EndOfInput ==
    /\ ~cli.quit
    /\ ~cli.eof
    /\ steps < MaxCliSteps
    /\ Called(H, "readline", <<>>, "", NoOut)
    /\ stored' = stored
    /\ cli' = [handlers |-> <<>>, quit |-> FALSE, eof |-> TRUE]

NextCli ==
    \/ ReadLine
    \/ EndOfInput

SpecCli == Init /\ [][NextCli]_vars

-----------------------------------------------------------------------------
(* Vocabulary of the properties *)

\* The sub-region and the target cell of the last ained_flip_lights call.
LastRegion == <<last.args[1], last.args[2], last.args[3], last.args[4]>>

LastTarget == <<last.args[5], last.args[6]>>

\* The sub-region lies inside the 128 x 64 grid.
InGrid(reg) ==
    /\ reg[1] >= 0 /\ reg[1] + reg[3] <= NumRows
    /\ reg[2] >= 0 /\ reg[2] + reg[4] <= NumCols

\* The target cell and its orthogonal neighbours that lie inside the sub-region.
Cross(reg, t) ==
    { <<t[1], t[2]>>, <<t[1] - 1, t[2]>>, <<t[1] + 1, t[2]>>,
      <<t[1], t[2] - 1>>, <<t[1], t[2] + 1>> } \cap RegionCells(reg)

\* The last call was ained_flip_lights on a sub-region inside the grid with
\* the target cell inside the sub-region.
FlippedInside ==
    /\ last.op = "ained_flip_lights"
    /\ InGrid(LastRegion)
    /\ LastTarget \in RegionCells(LastRegion)

\* The cells of the grid.
GridCells == { <<r, c>> : r \in 0 .. (NumRows - 1), c \in 0 .. (NumCols - 1) }

-----------------------------------------------------------------------------
(* Lights-Out move *)

\* C1: after ained_flip_lights on a sub-region inside the grid, with the target
\* cell inside the sub-region, the target cell and each of its orthogonal
\* neighbours inside the sub-region hold the opposite of their pre-call value.
C1_FlipTogglesCross ==
    FlippedInside =>
        \A cell \in Cross(LastRegion, LastTarget) :
            ained_get_bit(H, cell[1], cell[2]) # ained_get_bit(last.pre, cell[1], cell[2])

\* C2: ained_flip_lights leaves every cell of the sub-region other than the
\* target and its orthogonal neighbours inside the sub-region at its pre-call
\* value.
C2_FlipFrame ==
    FlippedInside =>
        \A cell \in RegionCells(LastRegion) \ Cross(LastRegion, LastTarget) :
            ained_get_bit(H, cell[1], cell[2]) = ained_get_bit(last.pre, cell[1], cell[2])

\* C3: two ained_flip_lights calls in succession with the same sub-region and
\* the same (row, col) leave the sub-region with the bit pattern it had before
\* the first call.
C3_FlipTwiceRestores ==
    [][ ( /\ FlippedInside
          /\ last'.op = "ained_flip_lights"
          /\ last'.args = last.args )
        => \A cell \in RegionCells(LastRegion) :
               ained_get_bit(H', cell[1], cell[2]) = ained_get_bit(last.pre, cell[1], cell[2])
      ]_vars

-----------------------------------------------------------------------------
(* Transaction buffer *)

\* The grid word idx after a store of word under the write mask m.
Masked(old, word, m) == (old \ m) \cup (word \cap m)

\* C4: starting with no pending transaction and bypass disabled, ained_set_bit
\* for two or more cells of one word and then ained_commit leave each touched
\* bit of that word at the value last requested for it, every untouched bit of
\* that word at its pre-commit value, and every other word unchanged.
C4_CommitWritesRequestedBits ==
    ( /\ last.op = "ained_commit"
      /\ last.req.plain
      /\ Cardinality(last.req.bits) >= 2 )
    => LET W == last.pre.index
       IN  /\ HwRead(H, W) \cap last.req.bits = last.req.ones
           /\ HwRead(H, W) \ last.req.bits = HwRead(last.pre, W) \ last.req.bits
           /\ \A w \in 0 .. (num_words - 1) :
                  w # W => HwRead(H, w) = HwRead(last.pre, w)

C6_NothingToCommit ==
    (last.op = "ained_commit" /\ last.pre.index < 0)
    => (H = last.pre /\ last.err = "Nothing to commit.")

\* Reached: ained_commit with nothing pending on a handle whose mask and grid
\* are not empty.
C6_Witness ==
    /\ last.op = "ained_commit"
    /\ last.pre.index < 0
    /\ last.pre.mask # {}
    /\ last.pre.memory # {}

\* C7: ained_set_word called while a transaction is pending on another word
\* index is rejected and leaves the pending index, value and mask untouched.
C7_SetWordRejected ==
    ( /\ last.op = "ained_set_word"
      /\ last.pre.index >= 0
      /\ last.args[1] # last.pre.index )
    => <<index, value, mask>> = <<last.pre.index, last.pre.value, last.pre.mask>>

-----------------------------------------------------------------------------
(* Bypass mode *)

\* C8: ained_set_bypass(true) leaves the bypass register 1 and the write mask
\* register all-ones, ained_set_bypass(false) leaves them 0 and all-zeros;
\* either way the grid and the pending transaction are unchanged.
C8_SetBypass ==
    last.op = "ained_set_bypass"
    => /\ last.args[1] => (bypass = 1 /\ maskreg = AllOnes)
       /\ ~last.args[1] => (bypass = 0 /\ maskreg = {})
       /\ memory = last.pre.memory
       /\ <<index, value, mask>> = <<last.pre.index, last.pre.value, last.pre.mask>>

\* Reached: bypass disabled again, with a lit grid and a transaction pending.
C8_Witness ==
    /\ last.op = "ained_set_bypass"
    /\ ~last.args[1]
    /\ last.pre.bypass = 1
    /\ last.pre.maskreg = AllOnes
    /\ memory # {}
    /\ index >= 0

\* C9: after ained_clear_memory every cell of the grid reads 0 through
\* ained_get_bit.
C9_ClearReadsZero ==
    last.op = "ained_clear_memory"
    => \A cell \in GridCells : ained_get_bit(H, cell[1], cell[2]) = 0

\* Reached: a clear of a lit grid, with a transaction pending and bypass
\* enabled before the call.
C9_Witness ==
    /\ last.op = "ained_clear_memory"
    /\ last.pre.memory # {}
    /\ last.pre.index >= 0
    /\ last.pre.bypass = 1

\* C10 as claimed: after ained_clear_memory the bypass flag has its pre-call
\* value.
C10_ClearRestoresBypass ==
    last.op = "ained_clear_memory" => bypass = last.pre.bypass

\* C10 as amended: after ained_clear_memory the bypass flag has its pre-call
\* value when bypass was disabled before the call, and is disabled when bypass
\* was enabled before the call.
C10_ClearDisablesBypass ==
    last.op = "ained_clear_memory"
    => /\ last.pre.bypass = 0 => bypass = last.pre.bypass
       /\ last.pre.bypass = 1 => bypass = 0

\* Reached: a clear called with bypass enabled.
C10_Witness ==
    /\ last.op = "ained_clear_memory"
    /\ last.pre.bypass = 1
    /\ bypass = 0

\* C11: after ained_clear_memory the bypass register is 0 whatever it was
\* before the call, also when bypass was enabled before the call.
C11_ClearLeavesBypassOff ==
    last.op = "ained_clear_memory" => bypass = 0

\* Reached: a clear called with bypass enabled and the write mask register
\* all-ones, on a lit grid.
C11_Witness ==
    /\ last.op = "ained_clear_memory"
    /\ last.pre.bypass = 1
    /\ last.pre.maskreg = AllOnes
    /\ last.pre.memory # {}
    /\ bypass = 0

-----------------------------------------------------------------------------
(* BitGrid addressing *)

\* The physical bit <<word index, bit position>> of a grid cell.
Physical(cell) ==
    <<ained_get_index(cell[1], cell[2]), ained_get_word_index(cell[1], cell[2])>>

\* The physical bits the grid cells are mapped to.
AddressImage == { Physical(cell) : cell \in GridCells }

\* C12: the addressing map (row, col) -> (ained_get_index, ained_get_word_index)
\* is a bijection from the 128 x 64 grid cells onto the 128 words x 64 bit
\* positions: every physical bit is hit, and by as many cells as there are
\* physical bits, so no two cells share one; every bit the device memory holds
\* is the physical bit of a cell.
C12_AddressingBijection ==
    /\ AddressImage = (0 .. (num_words - 1)) \X AllOnes
    /\ Cardinality(GridCells) = Cardinality((0 .. (num_words - 1)) \X AllOnes)
    /\ memory \subseteq AddressImage

\* Reached: a committed ained_set_bit lit the physical bit of its cell, which
\* ained_get_bit reads back at the same cell.
C12_Witness ==
    /\ last.op = "ained_commit"
    /\ last.req.ones # {}
    /\ \E a \in SetBitArgs :
           /\ last.pre.index = ained_get_index(a[1], a[2])
           /\ ained_get_word_index(a[1], a[2]) \in last.req.ones
           /\ Physical(<<a[1], a[2]>>) \in memory
           /\ ained_get_bit(H, a[1], a[2]) = 1

-----------------------------------------------------------------------------
(* Loading a board *)

\* C13: after ained_reconstruct_board on a sub-region inside the grid, each
\* cell (start_row + r, start_col + c) of the sub-region reads 1 if
\* board[r * num_col + c] is non-zero and 0 otherwise.
C13_ReconstructLoadsBoard ==
    (last.op = "ained_reconstruct_board" /\ InGrid(LastRegion))
    => \A r \in 0 .. (last.args[3] - 1), c \in 0 .. (last.args[4] - 1) :
           ained_get_bit(H, last.args[1] + r, last.args[2] + c)
               = IF last.args[5][r * last.args[4] + c] # 0 THEN 1 ELSE 0

-----------------------------------------------------------------------------
(* Dipole registers *)

\* C14: for a dipole index at or beyond the number of dipoles,
\* ained_set_dipole_rng changes no register and ained_get_dipole_rng returns 0
\* and writes none of its seed outputs.
C14_DipoleOutOfRange ==
    /\ ( /\ last.op = "ained_set_dipole_rng"
          /\ ~ULt(last.args[1], num_dipoles) )
        => <<dipoles, coeff, maskreg, bypass>>
               = <<last.pre.dipoles, last.pre.coeff, last.pre.maskreg, last.pre.bypass>>
    /\ ( /\ last.op = "ained_get_dipole_rng"
          /\ ~ULt(last.args[1], num_dipoles) )
        => out = [ret |-> 0, seeds |-> <<>>]

-----------------------------------------------------------------------------
(* Coefficient tables *)

\* The non-centre positions (r, c) of the 5 x 5 quadrant.
KernelPositions == { <<r, c>> : r \in 0 .. 4, c \in 0 .. 4 } \ { <<0, 0>> }

\* The byte of position pos in the table co_index selects.
KernelByte(co_index, pos) == coeff[CoeffBase(co_index) + pos[1] * 5 + pos[2] - 1]

\* C15: with factor = 1.0 and any reach > 0, ained_set_coefficients_euclidean
\* and ained_set_coefficients_manhattan store 255 in all 24 non-centre kernel
\* bytes.
C15_FactorOneAllFull ==
    ( /\ last.op \in { "ained_set_coefficients_euclidean",
                        "ained_set_coefficients_manhattan" }
      /\ last.args[1] = <<1, 1>>
      /\ last.args[2] > 0 )
    => \A pos \in KernelPositions : KernelByte(last.args[3], pos) = 255

\* C16: ained_set_coefficients_manhattan stores, for every non-centre position
\* (r, c) within reach, the 8-bit fixed-point encoding of factor^(r + c).
C16_ManhattanFromCentre ==
    last.op = "ained_set_coefficients_manhattan"
    => \A pos \in KernelPositions :
           pos[1] + pos[2] <= last.args[2]
           => KernelByte(last.args[3], pos)
                  = FixedPoint(Pow(last.args[1], pos[1] + pos[2]))

\* The bytes, counted from 1, of the coefficient registers first .. final.
CoeffRegisters(first, final) == (4 * first + 1) .. (4 * final + 4)

\* The byte a generator computes for position pos.
KernelField(op, factor, reach, pos) ==
    IF op = "ained_set_coefficients_manhattan"
    THEN ManhattanField(factor, reach, pos[1], pos[2])
    ELSE EuclideanField(factor, reach, pos[1], pos[2])

\* C32: a kernel generator call writes the byte of position (r, c) at byte
\* offset r * 5 + c - 1 of its block of six registers, all 24 bytes, and
\* touches only that block: AINED_COEFF_HIGH coefficient registers 0-5,
\* AINED_COEFF_LOW registers 6-11; the other kernel, the mask, bypass and the
\* dipole registers are unchanged.
C32_KernelLayoutAndFrame ==
    last.op \in { "ained_set_coefficients_euclidean",
                  "ained_set_coefficients_manhattan" }
    => LET block == IF last.args[3] = 0
                    THEN CoeffRegisters(0, 5)
                    ELSE CoeffRegisters(6, 11)
           first == CHOOSE i \in block : \A j \in block : i <= j
       IN  /\ \A pos \in KernelPositions :
                  coeff[first + pos[1] * 5 + pos[2] - 1]
                      = KernelField(last.op, last.args[1], last.args[2], pos)
           /\ { first + pos[1] * 5 + pos[2] - 1 : pos \in KernelPositions } = block
           /\ \A i \in DOMAIN coeff \ block : coeff[i] = last.pre.coeff[i]
           /\ <<maskreg, bypass, dipoles, mask, value, index, memory>>
                  = <<last.pre.maskreg, last.pre.bypass, last.pre.dipoles,
                      last.pre.mask, last.pre.value, last.pre.index,
                      last.pre.memory>>

\* Reached: the low kernel written while the high kernel holds non-zero
\* bytes, which stay.
C32_Witness ==
    /\ last.op \in { "ained_set_coefficients_euclidean",
                      "ained_set_coefficients_manhattan" }
    /\ last.args[3] = 1
    /\ \E i \in CoeffRegisters(0, 5) : last.pre.coeff[i] # 0
    /\ \E i \in CoeffRegisters(6, 11) : coeff[i] # last.pre.coeff[i]

\* Position pos is part of the cross or out of reach: its distance, which is
\* max(0, r + c - 1) for the Manhattan kernel and max(0, sqrt(r^2 + c^2) - 1)
\* for the Euclidean one, is 0 or exceeds reach.
NoDecay(op, reach, pos) ==
    IF op = "ained_set_coefficients_manhattan"
    THEN \/ Max(0, pos[1] + pos[2] - 1) = 0
         \/ Max(0, pos[1] + pos[2] - 1) > reach
    ELSE \/ pos[1] * pos[1] + pos[2] * pos[2] <= 1
         \/ /\ reach < 5
            /\ pos[1] * pos[1] + pos[2] * pos[2] > (reach + 1) * (reach + 1)

-----------------------------------------------------------------------------
(* Store and restore *)

\* The dipole registers of the num_dipoles dipoles of handle h.
DipoleRegisters(h) ==
    [i \in 1 .. (h.num_dipoles * AINED_REG_DIPOLE_NUM_REG_PD) |-> h.dipoles[i]]

\* C17: ained_restore_memory of a file ained_store_memory wrote reproduces the
\* 128 grid words, the 15 32-bit registers (write mask, coefficients, bypass)
\* and the num_dipoles x 4 dipole registers as they were at store time,
\* whatever they were changed to in between.
C17_StoreRestoreRoundTrip ==
    (last.op = "ained_restore_memory" /\ last.args[1] \in DOMAIN stored)
    => LET at == stored[last.args[1]]
       IN  /\ \A w \in 0 .. (num_words - 1) : HwRead(H, w) = HwRead(at, w)
           /\ maskreg = at.maskreg
           /\ coeff = at.coeff
           /\ bypass = at.bypass
           /\ DipoleRegisters(H) = DipoleRegisters(at)

\* Reached: a restore of a lit grid stored with bypass enabled, after the
\* grid and the bypass register were changed.
C17_Witness ==
    /\ last.op = "ained_restore_memory"
    /\ last.args[1] \in DOMAIN stored
    /\ stored[last.args[1]].memory # {}
    /\ stored[last.args[1]].bypass = 1
    /\ last.pre.memory # stored[last.args[1]].memory
    /\ last.pre.bypass # stored[last.args[1]].bypass
    /\ memory = stored[last.args[1]].memory

-----------------------------------------------------------------------------
(* Lights-Out move: inside the call *)

\* The last call was ained_flip_lights and went past its bounds check.
FlipProceeded ==
    /\ last.op = "ained_flip_lights"
    /\ ~FlipRejects(last.args[1], last.args[2], last.args[3], last.args[4],
                    last.args[5], last.args[6])

\* C18: in ained_flip_lights, after the commit of step 3 and before bypass is
\* enabled, the grid holds exactly one set bit, that of the target cell step 3
\* addresses, whatever the handle held at call time (a transaction pending on
\* the same or another word included).
C18_OnlyTargetAfterCommit ==
    FlipProceeded
    => FlipCommitted(last.pre, last.args[1], last.args[2], last.args[5], last.args[6]).memory
           = { Physical(<<last.args[1] + last.args[5], last.args[2] + last.args[6]>>) }

\* C19: when ained_flip_lights goes past its bounds check, the cell it sets in
\* step 3 and every neighbour it toggles in step 6 lie inside the sub-region
\* [start_row, start_row + num_row) x [start_col, start_col + num_col).
C19_TogglesInsideRegion ==
    FlipProceeded
    => FlipTouched(last.args[1], last.args[2], last.args[3], last.args[4],
                   last.args[5], last.args[6]) \subseteq RegionCells(LastRegion)

\* C20: after an ained_flip_lights call that went past its bounds check, every
\* grid cell outside the sub-region reads 0: every bit the grid holds is the
\* bit of a cell of the sub-region.
C20_OutsideRegionCleared ==
    FlipProceeded
    => memory \subseteq { Physical(cell) : cell \in RegionCells(LastRegion) }

\* C21: within ained_flip_lights every direct XOR write is made while the
\* bypass register is 1 and the write-mask register is all-ones, and when the
\* function returns after executing, bypass is disabled and no transaction is
\* pending.
C21_FlipWritesUnderBypass ==
    FlipProceeded
    => /\ \A at \in FlipWriteStates(last.pre, last.args[1], last.args[2], last.args[3],
                                      last.args[4], last.args[5], last.args[6]) :
              at.bypass = 1 /\ at.maskreg = AllOnes
       /\ bypass = 0
       /\ index = -1

\* Reached: a flip on a sub-region with lit cells, called with a transaction
\* pending, that restored lit cells and toggled neighbours.
C21_Witness ==
    /\ FlipProceeded
    /\ last.pre.index >= 0
    /\ \E cell \in RegionCells(LastRegion) :
           ained_get_bit(last.pre, cell[1], cell[2]) = 1
    /\ memory # {}
    /\ bypass = 0
    /\ index = -1

-----------------------------------------------------------------------------
(* Handle invariants *)

\* C22: in every state reached through the interface, a bypass register of 1
\* comes with an all-ones write-mask register, so that every raw word write
\* made under bypass is unmasked.
C22_BypassUnmasked ==
    bypass = 1 => maskreg = AllOnes

\* C23: in every state reached through the interface, whenever no transaction
\* is pending (index = -1) the pending mask and the pending value are both 0.
C23_IdleBufferEmpty ==
    index = -1 => (mask = {} /\ value = {})

-----------------------------------------------------------------------------
(* Transaction life cycle *)

\* C24: between two commits the pending mask only grows: an ained_set_bit
\* accepted on the pending word puts its bit in the mask whether the value is
\* 0 or 1 and leaves the value bit at the requested value (so at the last one
\* requested), and no ained_set_bit, accepted or rejected, takes a bit out of
\* the mask.
C24_MaskOnlyGrows ==
    [][ last'.op = "ained_set_bit"
        => LET id == ained_get_word_index(last'.args[1], last'.args[2])
           IN  /\ mask \subseteq mask'
               /\ last'.err = ""
                  => /\ id \in mask'
                     /\ (id \in value') = (last'.args[3] # 0)
                     /\ value' \ {id} = value \ {id}
               /\ last'.err # ""
                  => <<value', mask'>> = <<value, mask>>
      ]_vars

\* Reached: a bit asked to be 0 and then asked to be 1 in one transaction.
C24_Witness ==
    /\ last.op = "ained_set_bit"
    /\ last.err = ""
    /\ last.args[3] # 0
    /\ last.pre.index = ained_get_index(last.args[1], last.args[2])
    /\ ained_get_word_index(last.args[1], last.args[2]) \in last.pre.mask \ last.pre.value
    /\ ained_get_word_index(last.args[1], last.args[2]) \in value

\* C25: after an ained_commit that wrote its transaction nothing is pending:
\* an ained_commit that follows at once reports nothing to commit and changes
\* nothing, and an ained_set_bit that follows at once is accepted whatever the
\* word of its cell.
C25_CommitConsumes ==
    [][ (last.op = "ained_commit" /\ last.err = "")
        => /\ last'.op = "ained_commit"
              => (last'.err = "Nothing to commit." /\ H' = H)
           /\ last'.op = "ained_set_bit"
              => /\ last'.err = ""
                 /\ index' = ained_get_index(last'.args[1], last'.args[2])
      ]_vars

\* Reached: a third call, ained_commit, finds nothing to commit on a grid
\* the commit before it has written.
C25_Witness ==
    /\ steps = 3
    /\ last.op = "ained_commit"
    /\ last.err = "Nothing to commit."
    /\ memory \notin InitBoards
    /\ memory = last.pre.memory

-----------------------------------------------------------------------------
(* Ranges of the addressing map *)

\* Every bit the grid holds has its word index and its bit index below 64.
LitBelow64 == \A p \in memory : p[1] \in 0 .. 63 /\ p[2] \in 0 .. 63

\* For every cell (row < 128, col < 64) the word index is
\* (row / 8) * 8 + (col / 8) and the bit index is (row % 8) * 8 + (col % 8).
IndexFormulas ==
    \A cell \in GridCells :
        /\ ained_get_index(cell[1], cell[2]) = (cell[1] \div 8) * 8 + (cell[2] \div 8)
        /\ ained_get_word_index(cell[1], cell[2]) = (cell[1] % 8) * 8 + (cell[2] % 8)

\* The word indexes and the bit indexes of the cells.
WordIndexes == { ained_get_index(cell[1], cell[2]) : cell \in GridCells }

BitIndexes == { ained_get_word_index(cell[1], cell[2]) : cell \in GridCells }

\* C26 as claimed: for every cell (row < 128, col < 64) the word index is
\* (row / 8) * 8 + (col / 8), the bit index is (row % 8) * 8 + (col % 8), and
\* both lie in [0, 63].
C26_IndexesBelow64 ==
    /\ IndexFormulas
    /\ WordIndexes \subseteq 0 .. 63
    /\ BitIndexes \subseteq 0 .. 63
    /\ LitBelow64

\* C26 as amended: the word index is (row / 8) * 8 + (col / 8) and lies in
\* [0, 127], the bit index is (row % 8) * 8 + (col % 8) and lies in [0, 63];
\* the transaction a cell starts is pending on the word index of the cell.
C26_IndexRanges ==
    /\ IndexFormulas
    /\ WordIndexes \subseteq 0 .. 127
    /\ BitIndexes \subseteq 0 .. 63
    /\ (last.op = "ained_set_bit" /\ last.err = "")
       => /\ index = (last.args[1] \div 8) * 8 + (last.args[2] \div 8)
          /\ (last.args[1] % 8) * 8 + (last.args[2] % 8) \in mask

\* Reached: a transaction started on word 1 by the cell (0, 8).
C26_Witness ==
    /\ last.op = "ained_set_bit"
    /\ last.err = ""
    /\ last.args[1] = 0 /\ last.args[2] = 8
    /\ last.pre.index < 0
    /\ index = 1
    /\ 0 \in mask

-----------------------------------------------------------------------------
(* Raw word writes *)

\* C27: every grid write ained_commit makes goes to a word index in
\* [0, 127], whatever ained_set_bit calls with valid coordinates and
\* ained_set_word calls with any 32-bit offset came before.
C27_CommitInsideGrid ==
    /\ (last.op = "ained_commit" /\ last.err = "")
       => last.pre.index \in 0 .. (num_words - 1)
    /\ ~fault

-----------------------------------------------------------------------------
(* Empty sub-regions *)

\* C28: ained_flip_lights called with a sub-region without cells (num_row = 0
\* or num_col = 0) changes no device state, whatever the target.
C28_EmptyRegionNoChange ==
    ( /\ last.op = "ained_flip_lights"
      /\ (last.args[3] = 0 \/ last.args[4] = 0) )
    => <<memory, maskreg, bypass>>
           = <<last.pre.memory, last.pre.maskreg, last.pre.bypass>>

-----------------------------------------------------------------------------
(* Dipole count *)

\* C29: the dipole count ained_init fixed never changes: ained_get_num_dipoles
\* returns the same value after every call, ained_set_dipole_rng and
\* ained_restore_memory writing the dipole registers included.
C29_DipoleCountFixed ==
    [][ ained_get_num_dipoles(H') = ained_get_num_dipoles(H) ]_vars

\* Reached: a restore that rewrote dipole seed registers which
\* ained_set_dipole_rng had changed since the store, the count being what
\* ained_init found.
C29_Witness ==
    /\ last.op = "ained_restore_memory"
    /\ last.err = ""
    /\ dipoles # last.pre.dipoles
    /\ ained_get_num_dipoles(H) = CountDipoles(DipoleBank(1), 0)

-----------------------------------------------------------------------------
(* Dipole detection *)

\* The blocks from n on that precede the first block whose three seed
\* registers are all zero.
RECURSIVE SeedBlocks(_, _)
SeedBlocks(regs, n) ==
    IF n * AINED_REG_DIPOLE_NUM_REG_PD + 4 \in DOMAIN regs
       /\ \E k \in 1 .. 3 : regs[n * AINED_REG_DIPOLE_NUM_REG_PD + 1 + k] # 0
    THEN SeedBlocks(regs, n + 1)
    ELSE n

\* C30: ained_init sets the dipole count to the number of consecutive register
\* blocks, from block 0 on, that precede the first block whose seed registers
\* are zero; a seeded block whose random output reads 0 is counted.
C30_CountsSeededBlocks ==
    last.op = "ained_init" => num_dipoles = SeedBlocks(dipoles, 0)

-----------------------------------------------------------------------------
(* Command line *)

\* The line read last, <<>> at the end of input.
LastLine == IF last.op = "readline" /\ ~cli.eof THEN last.args[1] ELSE <<>>

\* The arguments of a set command line, as numbers.
SetArguments(line) ==
    LET toks == Tokens(SubSeq(line, 5, Len(line)), 0, <<>>)
    IN  [i \in DOMAIN toks |-> strtoul(toks[i])]

\* The line is the set command with three arguments of which one is out of
\* range: row > 127, column > 63 or a value other than 0 and 1.
InvalidSet(line) ==
    /\ Len(line) > 4
    /\ SubSeq(line, 1, 4) = <<"s", "e", "t", " ">>
    /\ Len(SetArguments(line)) = 3
    /\ \/ SetArguments(line)[1] > 127
       \/ SetArguments(line)[2] > 63
       \/ SetArguments(line)[3] \notin {0, 1}

\* C33: the command 'set <row> <column> <value>' leaves the pending
\* transaction unchanged when row > 127, column > 63 or value is not 0 or 1:
\* ained_set_bit is not called with a substituted coordinate or value.
C33_InvalidSetIgnored ==
    (last.op = "readline" /\ InvalidSet(LastLine))
    => <<index, mask, value>> = <<last.pre.index, last.pre.mask, last.pre.value>>

\* The line names the quit command: it is a prefix of "quit" or begins with
\* it, whatever the case of its letters.
NamesQuit(line) ==
    /\ line # <<>>
    /\ StrNCaseEq(line, <<"q", "u", "i", "t">>, Min(4, Len(line)))

\* C34: a line read by the command loop runs at most one handler, and the
\* loop quits only for a line that names the quit command: not for an empty
\* line, and an ambiguous prefix does not run several handlers.
C34_OneHandlerPerLine ==
    (last.op = "readline" /\ ~cli.eof)
    => /\ Len(cli.handlers) <= 1
       /\ cli.quit => NamesQuit(LastLine)

====
